---------------------------- MODULE Spec2Model ----------------------------
(***************************************************************************)
(* Model of the natural-language-to-asset matcher (class AssetMapper) of   *)
(* the Ready Player Me demo: extractSearchTerms, calculateMatchScore,      *)
(* findAssets, buildAvatarConfig and mapTypeToConfigKey over the           *)
(* module-level catalog SAMPLE_ASSETS.                                     *)
(*                                                                         *)
(* JavaScript strings are modelled as sequences of one-character strings,  *)
(* so that toLowerCase, split, includes and the regular expressions are    *)
(* computed character by character, as the code computes them.             *)
(***************************************************************************)
EXTENDS Integers, Sequences, FiniteSets, TLC

VARIABLES
  assets,       \* this.assets: the catalog the AssetMapper instance reads
  description,  \* the argument of the call being made
  pc,           \* "idle" | "findAssets" | "buildAvatarConfig": the call that returned last
  matches,      \* the value returned by the last findAssets call
  avatar,       \* the value returned by the last buildAvatarConfig call
  returned,     \* per description: what findAssets returned first, and the number of calls
  terms,        \* the local searchTerms of the last findAssets call
  callers,      \* the callers of SpecConcurrent: each one's request and the value it got
  animator,     \* the AnimatedAvatar component instance: its props, state, refs and timers
  app,          \* the App component: its state and the localStorage entry 'rpm-characters'
  fetcher       \* the fetchAssets script: the locals of fetchAllAssets and its files

mapperVars == <<assets, description, pc, matches, avatar, returned, terms>>

vars == <<mapperVars, callers, animator, app, fetcher>>

-----------------------------------------------------------------------------
(* Bounds of the model *)

\* Longest generated description, in vocabulary words.
MaxWords == 2

\* Most findAssets calls made with one description in one behaviour.
MaxCalls == 2

\* The callers whose requests overlap in SpecConcurrent.
NumCallers == 2

\* Most animation selections in one behaviour of SpecAnimator.
MaxSelections == 2

\* Most button clicks in one behaviour of SpecControls.
MaxClicks == 1

\* Most changes of the avatar shown by one component instance.
MaxAvatarChanges == 1

\* Most character ids issued in one behaviour of SpecApp.
MaxCharacters == 3

\* The pages the assets API has in SpecFetch.
NumPages == 50

\* Most runs of the fetchAssets script in one behaviour of SpecFetch.
MaxRuns == 2

-----------------------------------------------------------------------------
(* Strings *)

\* String.prototype.toLowerCase on the ASCII letters.
LowerOf ==
  ("A" :> "a") @@ ("B" :> "b") @@ ("C" :> "c") @@ ("D" :> "d") @@ ("E" :> "e") @@
  ("F" :> "f") @@ ("G" :> "g") @@ ("H" :> "h") @@ ("I" :> "i") @@ ("J" :> "j") @@
  ("K" :> "k") @@ ("L" :> "l") @@ ("M" :> "m") @@ ("N" :> "n") @@ ("O" :> "o") @@
  ("P" :> "p") @@ ("Q" :> "q") @@ ("R" :> "r") @@ ("S" :> "s") @@ ("T" :> "t") @@
  ("U" :> "u") @@ ("V" :> "v") @@ ("W" :> "w") @@ ("X" :> "x") @@ ("Y" :> "y") @@
  ("Z" :> "z")

ToLowerCase(s) ==
  [i \in 1..Len(s) |-> IF s[i] \in DOMAIN LowerOf THEN LowerOf[s[i]] ELSE s[i]]

\* The regular expression class \s, on the characters the model uses.
IsWhitespace(c) == c \in {" ", "\t", "\n"}

\* The regular expression class \w: [A-Za-z0-9_].
IsWordChar(c) ==
  \/ c \in DOMAIN LowerOf
  \/ c \in {LowerOf[u] : u \in DOMAIN LowerOf}
  \/ c \in {"0", "1", "2", "3", "4", "5", "6", "7", "8", "9", "_"}

\* String.prototype.includes: t occurs in s as a contiguous substring.
StrIncludes(s, t) ==
  \E i \in 0..(Len(s) - Len(t)) : SubSeq(s, i + 1, i + Len(t)) = t

\* Array.prototype.includes: x is an element of arr.
ArrayIncludes(arr, x) == \E i \in 1..Len(arr) : arr[i] = x

\* String.prototype.split(/\s+/): the pieces between maximal whitespace runs,
\* the empty pieces before a leading and after a trailing run included; the
\* empty string splits into one empty piece.
RECURSIVE SplitFrom(_, _, _, _, _)
SplitFrom(s, i, cur, inSep, acc) ==
  IF i > Len(s) THEN Append(acc, cur)
  ELSE IF IsWhitespace(s[i])
       THEN IF inSep THEN SplitFrom(s, i + 1, cur, TRUE, acc)
                     ELSE SplitFrom(s, i + 1, <<>>, TRUE, Append(acc, cur))
       ELSE SplitFrom(s, i + 1, Append(cur, s[i]), FALSE, acc)

\* Mutant of SplitWhitespace: the empty pieces are dropped.
SplitDroppingEmpty(s) ==
  SelectSeq(SplitFrom(s, 1, <<>>, FALSE, <<>>), LAMBDA w : w # <<>>)

SplitWhitespace(s) == SplitFrom(s, 1, <<>>, FALSE, <<>>)

\* g.replace(/s$/, ''): one trailing "s" removed.
RemovePlural(g) ==
  IF Len(g) > 0 /\ g[Len(g)] = "s" THEN SubSeq(g, 1, Len(g) - 1) ELSE g

\* A position p (between s[p-1] and s[p]) is a regular expression word
\* boundary \b when exactly one of its two sides is a word character.
WordCharAt(s, p) == p >= 1 /\ p <= Len(s) /\ IsWordChar(s[p])

WordBoundary(s, p) == WordCharAt(s, p - 1) # WordCharAt(s, p)

\* Mutant of MatchesWholeWord: the pattern without its \b anchors.
MatchesAnywhere(s, alternatives) ==
  \E w \in alternatives : StrIncludes(ToLowerCase(s), w)

\* description.match(/\b(w1|w2|...)\b/i): some alternative occurs, compared
\* case-insensitively, between two word boundaries.
MatchesWholeWord(s, alternatives) ==
  \E w \in alternatives :
    \E i \in 1..(Len(s) - Len(w) + 1) :
      /\ ToLowerCase(SubSeq(s, i, i + Len(w) - 1)) = w
      /\ WordBoundary(s, i)
      /\ WordBoundary(s, i + Len(w))

-----------------------------------------------------------------------------
(* The catalog and the fixed vocabularies *)

\* extractSearchTerms: common color terms
colors ==
  { <<"b", "l", "a", "c", "k">>,
    <<"w", "h", "i", "t", "e">>,
    <<"r", "e", "d">>,
    <<"b", "l", "u", "e">>,
    <<"g", "r", "e", "e", "n">>,
    <<"y", "e", "l", "l", "o", "w">>,
    <<"o", "r", "a", "n", "g", "e">>,
    <<"p", "u", "r", "p", "l", "e">>,
    <<"p", "i", "n", "k">>,
    <<"b", "r", "o", "w", "n">>,
    <<"g", "r", "a", "y">>,
    <<"g", "r", "e", "y">>,
    <<"n", "a", "v", "y">>,
    <<"b", "e", "i", "g", "e">>,
    <<"t", "a", "n">>,
    <<"g", "o", "l", "d">>,
    <<"s", "i", "l", "v", "e", "r">> }

\* extractSearchTerms: common material terms
materials ==
  { <<"l", "e", "a", "t", "h", "e", "r">>,
    <<"d", "e", "n", "i", "m">>,
    <<"c", "o", "t", "t", "o", "n">>,
    <<"s", "i", "l", "k">>,
    <<"w", "o", "o", "l">>,
    <<"p", "o", "l", "y", "e", "s", "t", "e", "r">>,
    <<"v", "e", "l", "v", "e", "t">>,
    <<"s", "u", "e", "d", "e">>,
    <<"c", "a", "n", "v", "a", "s">>,
    <<"n", "y", "l", "o", "n">>,
    <<"s", "a", "t", "i", "n">>,
    <<"l", "a", "c", "e">>,
    <<"m", "e", "t", "a", "l">>,
    <<"p", "l", "a", "s", "t", "i", "c">> }

\* extractSearchTerms: common clothing types
clothingTypes ==
  { <<"j", "a", "c", "k", "e", "t">>,
    <<"c", "o", "a", "t">>,
    <<"s", "h", "i", "r", "t">>,
    <<"t", "s", "h", "i", "r", "t">>,
    <<"t", "-", "s", "h", "i", "r", "t">>,
    <<"p", "a", "n", "t", "s">>,
    <<"j", "e", "a", "n", "s">>,
    <<"s", "h", "o", "r", "t", "s">>,
    <<"d", "r", "e", "s", "s">>,
    <<"s", "k", "i", "r", "t">>,
    <<"s", "u", "i", "t">>,
    <<"h", "o", "o", "d", "i", "e">>,
    <<"s", "w", "e", "a", "t", "e", "r">>,
    <<"v", "e", "s", "t">>,
    <<"b", "l", "a", "z", "e", "r">>,
    <<"h", "a", "t">>,
    <<"c", "a", "p">>,
    <<"g", "l", "a", "s", "s", "e", "s">>,
    <<"s", "u", "n", "g", "l", "a", "s", "s", "e", "s">>,
    <<"s", "h", "o", "e", "s">>,
    <<"b", "o", "o", "t", "s">>,
    <<"s", "n", "e", "a", "k", "e", "r", "s">>,
    <<"h", "a", "i", "r">>,
    <<"b", "e", "a", "r", "d">>,
    <<"m", "u", "s", "t", "a", "c", "h", "e">>,
    <<"t", "o", "p">>,
    <<"b", "o", "t", "t", "o", "m">>,
    <<"o", "u", "t", "f", "i", "t">> }

\* extractSearchTerms: style descriptors
styles ==
  { <<"c", "a", "s", "u", "a", "l">>,
    <<"f", "o", "r", "m", "a", "l">>,
    <<"b", "u", "s", "i", "n", "e", "s", "s">>,
    <<"s", "p", "o", "r", "t", "y">>,
    <<"a", "t", "h", "l", "e", "t", "i", "c">>,
    <<"v", "i", "n", "t", "a", "g", "e">>,
    <<"m", "o", "d", "e", "r", "n">>,
    <<"c", "l", "a", "s", "s", "i", "c">>,
    <<"p", "u", "n", "k">>,
    <<"g", "o", "t", "h", "i", "c">>,
    <<"h", "i", "p", "s", "t", "e", "r">>,
    <<"p", "r", "e", "p", "p", "y">>,
    <<"s", "t", "r", "e", "e", "t">>,
    <<"e", "l", "e", "g", "a", "n", "t">>,
    <<"s", "i", "m", "p", "l", "e">>,
    <<"f", "a", "n", "c", "y">>,
    <<"r", "e", "t", "r", "o">>,
    <<"t", "r", "e", "n", "d", "y">> }

\* extractSearchTerms: gender terms
genderTerms ==
  { <<"m", "a", "l", "e">>,
    <<"f", "e", "m", "a", "l", "e">>,
    <<"m", "a", "n">>,
    <<"w", "o", "m", "a", "n">>,
    <<"m", "e", "n">>,
    <<"w", "o", "m", "e", "n">>,
    <<"b", "o", "y">>,
    <<"g", "i", "r", "l">>,
    <<"m", "a", "s", "c", "u", "l", "i", "n", "e">>,
    <<"f", "e", "m", "i", "n", "i", "n", "e">>,
    <<"u", "n", "i", "s", "e", "x">>,
    <<"n", "e", "u", "t", "r", "a", "l">> }

\* The catalog, in the insertion order of the object literal (the order
\* Object.entries iterates it in).
SAMPLE_ASSETS ==
  <<
    [ id     |-> "outfit_leather_jacket_black",
      name   |-> <<"B", "l", "a", "c", "k", " ", "L", "e", "a", "t", "h", "e", "r", " ", "J", "a", "c", "k", "e", "t">>,
      type   |-> <<"o", "u", "t", "f", "i", "t">>,
      gender |-> << <<"m", "a", "l", "e">>, <<"f", "e", "m", "a", "l", "e">> >>,
      tags   |-> << <<"j", "a", "c", "k", "e", "t">>,
                  <<"l", "e", "a", "t", "h", "e", "r">>,
                  <<"b", "l", "a", "c", "k">>,
                  <<"c", "a", "s", "u", "a", "l">>,
                  <<"c", "o", "o", "l">> >> ],
    [ id     |-> "outfit_blue_jeans",
      name   |-> <<"B", "l", "u", "e", " ", "D", "e", "n", "i", "m", " ", "J", "e", "a", "n", "s">>,
      type   |-> <<"b", "o", "t", "t", "o", "m">>,
      gender |-> << <<"m", "a", "l", "e">>, <<"f", "e", "m", "a", "l", "e">> >>,
      tags   |-> << <<"j", "e", "a", "n", "s">>,
                  <<"d", "e", "n", "i", "m">>,
                  <<"b", "l", "u", "e">>,
                  <<"c", "a", "s", "u", "a", "l">>,
                  <<"p", "a", "n", "t", "s">> >> ],
    [ id     |-> "outfit_white_tshirt",
      name   |-> <<"W", "h", "i", "t", "e", " ", "T", "-", "S", "h", "i", "r", "t">>,
      type   |-> <<"t", "o", "p">>,
      gender |-> << <<"m", "a", "l", "e">>, <<"f", "e", "m", "a", "l", "e">> >>,
      tags   |-> << <<"s", "h", "i", "r", "t">>,
                  <<"t", "s", "h", "i", "r", "t">>,
                  <<"w", "h", "i", "t", "e">>,
                  <<"c", "a", "s", "u", "a", "l">>,
                  <<"b", "a", "s", "i", "c">> >> ],
    [ id     |-> "outfit_hoodie_gray",
      name   |-> <<"G", "r", "a", "y", " ", "H", "o", "o", "d", "i", "e">>,
      type   |-> <<"t", "o", "p">>,
      gender |-> << <<"m", "a", "l", "e">>, <<"f", "e", "m", "a", "l", "e">> >>,
      tags   |-> << <<"h", "o", "o", "d", "i", "e">>,
                  <<"g", "r", "a", "y">>,
                  <<"c", "a", "s", "u", "a", "l">>,
                  <<"c", "o", "m", "f", "o", "r", "t", "a", "b", "l", "e">>,
                  <<"s", "w", "e", "a", "t", "e", "r">> >> ],
    [ id     |-> "outfit_business_suit",
      name   |-> <<"B", "u", "s", "i", "n", "e", "s", "s", " ", "S", "u", "i", "t">>,
      type   |-> <<"o", "u", "t", "f", "i", "t">>,
      gender |-> << <<"m", "a", "l", "e">>, <<"f", "e", "m", "a", "l", "e">> >>,
      tags   |-> << <<"s", "u", "i", "t">>,
                  <<"b", "u", "s", "i", "n", "e", "s", "s">>,
                  <<"f", "o", "r", "m", "a", "l">>,
                  <<"p", "r", "o", "f", "e", "s", "s", "i", "o", "n", "a", "l">>,
                  <<"j", "a", "c", "k", "e", "t">> >> ],
    [ id     |-> "glasses_sunglasses_black",
      name   |-> <<"B", "l", "a", "c", "k", " ", "S", "u", "n", "g", "l", "a", "s", "s", "e", "s">>,
      type   |-> <<"g", "l", "a", "s", "s", "e", "s">>,
      gender |-> << <<"m", "a", "l", "e">>, <<"f", "e", "m", "a", "l", "e">> >>,
      tags   |-> << <<"s", "u", "n", "g", "l", "a", "s", "s", "e", "s">>,
                  <<"b", "l", "a", "c", "k">>,
                  <<"c", "o", "o", "l">>,
                  <<"g", "l", "a", "s", "s", "e", "s">>,
                  <<"e", "y", "e", "w", "e", "a", "r">> >> ],
    [ id     |-> "glasses_reading",
      name   |-> <<"R", "e", "a", "d", "i", "n", "g", " ", "G", "l", "a", "s", "s", "e", "s">>,
      type   |-> <<"g", "l", "a", "s", "s", "e", "s">>,
      gender |-> << <<"m", "a", "l", "e">>, <<"f", "e", "m", "a", "l", "e">> >>,
      tags   |-> << <<"g", "l", "a", "s", "s", "e", "s">>,
                  <<"r", "e", "a", "d", "i", "n", "g">>,
                  <<"e", "y", "e", "w", "e", "a", "r">>,
                  <<"c", "l", "e", "a", "r">> >> ],
    [ id     |-> "hair_short_black",
      name   |-> <<"S", "h", "o", "r", "t", " ", "B", "l", "a", "c", "k", " ", "H", "a", "i", "r">>,
      type   |-> <<"h", "a", "i", "r">>,
      gender |-> << <<"m", "a", "l", "e">> >>,
      tags   |-> << <<"h", "a", "i", "r">>,
                  <<"s", "h", "o", "r", "t">>,
                  <<"b", "l", "a", "c", "k">>,
                  <<"n", "e", "a", "t">> >> ],
    [ id     |-> "hair_long_brown",
      name   |-> <<"L", "o", "n", "g", " ", "B", "r", "o", "w", "n", " ", "H", "a", "i", "r">>,
      type   |-> <<"h", "a", "i", "r">>,
      gender |-> << <<"f", "e", "m", "a", "l", "e">> >>,
      tags   |-> << <<"h", "a", "i", "r">>,
                  <<"l", "o", "n", "g">>,
                  <<"b", "r", "o", "w", "n">>,
                  <<"f", "l", "o", "w", "i", "n", "g">> >> ],
    [ id     |-> "hair_beard_full",
      name   |-> <<"F", "u", "l", "l", " ", "B", "e", "a", "r", "d">>,
      type   |-> <<"f", "a", "c", "i", "a", "l", "H", "a", "i", "r">>,
      gender |-> << <<"m", "a", "l", "e">> >>,
      tags   |-> << <<"b", "e", "a", "r", "d">>,
                  <<"f", "a", "c", "i", "a", "l">>,
                  <<"h", "a", "i", "r">>,
                  <<"f", "u", "l", "l">>,
                  <<"m", "a", "s", "c", "u", "l", "i", "n", "e">> >> ]
  >>

\* mapTypeToConfigKey: the type -> configuration key table, as <<type, key>> pairs.
typeMap ==
  { <<<<"h", "a", "i", "r">>, "hairStyle">>,
    <<<<"f", "a", "c", "i", "a", "l", "H", "a", "i", "r">>, "facialHairStyle">>,
    <<<<"e", "y", "e", "b", "r", "o", "w", "s">>, "eyebrowStyle">>,
    <<<<"e", "y", "e", "s">>, "eyeColor">>,
    <<<<"o", "u", "t", "f", "i", "t">>, "outfit">>,
    <<<<"t", "o", "p">>, "outfit">>,
    <<<<"b", "o", "t", "t", "o", "m">>, "outfit">>,
    <<<<"f", "o", "o", "t", "w", "e", "a", "r">>, "footwear">>,
    <<<<"g", "l", "a", "s", "s", "e", "s">>, "glasses">>,
    <<<<"h", "e", "a", "d", "w", "e", "a", "r">>, "headwear">>,
    <<<<"f", "a", "c", "e", "w", "e", "a", "r">>, "facewear">>,
    <<<<"n", "e", "c", "k", "w", "e", "a", "r">>, "neckwear">>,
    <<<<"e", "a", "r", "r", "i", "n", "g", "s">>, "earrings">>,
    <<<<"m", "a", "k", "e", "u", "p">>, "makeup">> }
-----------------------------------------------------------------------------
(* The descriptions the calls are made with *)

\* The words the generated descriptions are built from: the empty word (two
\* of them joined give a run of spaces, one in front a leading space), a tab,
\* vocabulary words of every bucket, words of the gender patterns in several
\* spellings, and short words.
Vocabulary ==
  { <<>>,
    <<"\t">>,
    <<"b", "l", "a", "c", "k">>,
    <<"l", "e", "a", "t", "h", "e", "r">>,
    <<"j", "a", "c", "k", "e", "t">>,
    <<"j", "e", "a", "n", "s">>,
    <<"c", "a", "s", "u", "a", "l">>,
    <<"m", "a", "l", "e">>,
    <<"m", "a", "n">>,
    <<"W", "o", "m", "a", "n">>,
    <<"M", "A", "N", ",">>,
    <<"l", "a", "d", "y">>,
    <<"t", "o", "p">>,
    <<"a", "i", "r">>,
    <<"m", "a", "n", "_">> }

\* "Indian man with black jacket"
ExIndianMan ==
  <<"I", "n", "d", "i", "a", "n", " ", "m", "a", "n", " ", "w", "i", "t", "h", " ", "b", "l", "a", "c", "k", " ", "j", "a", "c", "k", "e", "t">>

\* "elegant woman in red dress"
ExElegantWoman ==
  <<"e", "l", "e", "g", "a", "n", "t", " ", "w", "o", "m", "a", "n", " ", "i", "n", " ", "r", "e", "d", " ", "d", "r", "e", "s", "s">>

\* "a person walking"
ExPerson ==
  <<"a", " ", "p", "e", "r", "s", "o", "n", " ", "w", "a", "l", "k", "i", "n", "g">>

\* "black leather jacket for a man"
ExLeatherJacket ==
  <<"b", "l", "a", "c", "k", " ", "l", "e", "a", "t", "h", "e", "r", " ", "j", "a", "c", "k", "e", "t", " ", "f", "o", "r", " ", "a", " ", "m", "a", "n">>

ExampleDescriptions == { ExIndianMan, ExElegantWoman, ExPerson, ExLeatherJacket }

\* The words of ws joined by single spaces.
RECURSIVE Join(_)
Join(ws) ==
  IF Len(ws) = 0 THEN <<>>
  ELSE IF Len(ws) = 1 THEN ws[1]
  ELSE Join(SubSeq(ws, 1, Len(ws) - 1)) \o <<" ">> \o ws[Len(ws)]

Descriptions ==
  { Join(ws) : ws \in UNION { [1..n -> Vocabulary] : n \in 0..MaxWords } }
    \cup ExampleDescriptions

-----------------------------------------------------------------------------
(* AssetMapper *)

\* The words of ws without repetitions, each at its first position.
RECURSIVE Distinct(_)
Distinct(ws) ==
  IF ws = <<>> THEN <<>>
  ELSE LET front == Distinct(SubSeq(ws, 1, Len(ws) - 1))
       IN  IF \E i \in 1..Len(front) : front[i] = ws[Len(ws)]
           THEN front
           ELSE Append(front, ws[Len(ws)])

\* Mutant of extractSearchTerms: a bucket holds each of its words once.
extractSearchTermsDistinct(desc) ==
  LET lowerDesc == ToLowerCase(desc)
      words     == SplitWhitespace(lowerDesc)
  IN  [ colors    |-> Distinct(SelectSeq(words, LAMBDA w : w \in colors)),
        materials |-> Distinct(SelectSeq(words, LAMBDA w : w \in materials)),
        types     |-> Distinct(SelectSeq(words, LAMBDA w : w \in clothingTypes)),
        styles    |-> Distinct(SelectSeq(words, LAMBDA w : w \in styles)),
        gender    |-> Distinct(SelectSeq(words, LAMBDA w : w \in genderTerms)),
        keywords  |-> words ]

extractSearchTerms(desc) ==
  LET lowerDesc == ToLowerCase(desc)
      words     == SplitWhitespace(lowerDesc)
  IN  [ colors    |-> SelectSeq(words, LAMBDA w : w \in colors),
        materials |-> SelectSeq(words, LAMBDA w : w \in materials),
        types     |-> SelectSeq(words, LAMBDA w : w \in clothingTypes),
        styles    |-> SelectSeq(words, LAMBDA w : w \in styles),
        gender    |-> SelectSeq(words, LAMBDA w : w \in genderTerms),
        keywords  |-> words ]

\* calculateMatchScore, "Check type matches (highest weight)".
TypeScore(asset, searchTerms) ==
  LET assetName == ToLowerCase(asset.name)
  IN  10 * Len(SelectSeq(searchTerms.types,
                     LAMBDA type : \/ StrIncludes(assetName, type)
                                   \/ asset.type = type
                                   \/ ArrayIncludes(asset.tags, type)))

\* Mutant of ColorScore: a colour match weighs as much as a type match.
ColorScoreAsType(asset, searchTerms) ==
  LET assetName == ToLowerCase(asset.name)
  IN  10 * Len(SelectSeq(searchTerms.colors,
                     LAMBDA color : \/ StrIncludes(assetName, color)
                                    \/ ArrayIncludes(asset.tags, color)))

\* calculateMatchScore, "Check color matches".
ColorScore(asset, searchTerms) ==
  LET assetName == ToLowerCase(asset.name)
  IN  5 * Len(SelectSeq(searchTerms.colors,
                    LAMBDA color : \/ StrIncludes(assetName, color)
                                   \/ ArrayIncludes(asset.tags, color)))

\* calculateMatchScore, "Check material matches".
MaterialScore(asset, searchTerms) ==
  LET assetName == ToLowerCase(asset.name)
  IN  5 * Len(SelectSeq(searchTerms.materials,
                    LAMBDA material : \/ StrIncludes(assetName, material)
                                      \/ ArrayIncludes(asset.tags, material)))

\* calculateMatchScore, "Check style matches".
StyleScore(asset, searchTerms) ==
  LET assetName == ToLowerCase(asset.name)
  IN  3 * Len(SelectSeq(searchTerms.styles,
                    LAMBDA style : \/ StrIncludes(assetName, style)
                                   \/ ArrayIncludes(asset.tags, style)))

\* Mutant of GenderMatch: a gender term must be a gender tag, not a part of one.
GenderMatchExact(asset, searchTerms) ==
  \E k \in 1..Len(searchTerms.gender) :
    LET normalizedGender == RemovePlural(searchTerms.gender[k])
    IN  \E j \in 1..Len(asset.gender) :
          ToLowerCase(asset.gender[j]) = normalizedGender

\* calculateMatchScore, "Check gender matches": genderMatch.
GenderMatch(asset, searchTerms) ==
  \E k \in 1..Len(searchTerms.gender) :
    LET normalizedGender == RemovePlural(searchTerms.gender[k])
    IN  \E j \in 1..Len(asset.gender) :
          StrIncludes(ToLowerCase(asset.gender[j]), normalizedGender)

\* Mutant of GenderScore: 2 for every matching gender term instead of 2 once.
GenderScorePerTerm(asset, searchTerms) ==
  2 * Len(SelectSeq(searchTerms.gender,
                LAMBDA g : \E j \in 1..Len(asset.gender) :
                             StrIncludes(ToLowerCase(asset.gender[j]), RemovePlural(g))))

GenderScore(asset, searchTerms) ==
  IF Len(searchTerms.gender) > 0 /\ GenderMatch(asset, searchTerms) THEN 2 ELSE 0

\* Mutant of KeywordScore: the keyword.length > 3 test left out.
KeywordScoreAnyLength(asset, searchTerms) ==
  LET assetName == ToLowerCase(asset.name)
  IN  Len(SelectSeq(searchTerms.keywords,
                LAMBDA keyword :
                  \/ StrIncludes(assetName, keyword)
                  \/ \E j \in 1..Len(asset.tags) : StrIncludes(asset.tags[j], keyword)))

\* Mutant of KeywordScore: a keyword a bucket has taken is not counted again.
KeywordScoreSuppressed(asset, searchTerms) ==
  LET assetName == ToLowerCase(asset.name)
  IN  Len(SelectSeq(searchTerms.keywords,
                LAMBDA keyword :
                  /\ Len(keyword) > 3
                  /\ keyword \notin colors \cup materials \cup clothingTypes \cup styles
                  /\ \/ StrIncludes(assetName, keyword)
                     \/ \E j \in 1..Len(asset.tags) : StrIncludes(asset.tags[j], keyword)))

\* calculateMatchScore, "General keyword matches (lowest weight)".
KeywordScore(asset, searchTerms) ==
  LET assetName == ToLowerCase(asset.name)
  IN  Len(SelectSeq(searchTerms.keywords,
                LAMBDA keyword :
                  /\ Len(keyword) > 3
                  /\ \/ StrIncludes(assetName, keyword)
                     \/ \E j \in 1..Len(asset.tags) : StrIncludes(asset.tags[j], keyword)))

calculateMatchScore(asset, searchTerms) ==
    TypeScore(asset, searchTerms)
  + ColorScore(asset, searchTerms)
  + MaterialScore(asset, searchTerms)
  + StyleScore(asset, searchTerms)
  + GenderScore(asset, searchTerms)
  + KeywordScore(asset, searchTerms)

\* Mutant of InsertByScore: an unstable sort, entries of equal score reversed.
InsertByScoreUnstable(sorted, x) ==
  LET before == SelectSeq(sorted, LAMBDA m : m.score > x.score)
      after  == SelectSeq(sorted, LAMBDA m : m.score <= x.score)
  IN  before \o <<x>> \o after

\* One step of matches.sort((a, b) => b.score - a.score): x is placed behind
\* every element that does not sort after it (Array.prototype.sort is stable).
InsertByScore(sorted, x) ==
  LET before == SelectSeq(sorted, LAMBDA m : m.score >= x.score)
      after  == SelectSeq(sorted, LAMBDA m : m.score < x.score)
  IN  before \o <<x>> \o after

RECURSIVE SortByScore(_)
SortByScore(ms) ==
  IF ms = <<>> THEN <<>>
  ELSE InsertByScore(SortByScore(SubSeq(ms, 1, Len(ms) - 1)), ms[Len(ms)])

\* Mutant of Keep: score >= 0.
KeepNonNegative(score) == score >= 0

\* findAssets keeps an entry when its score is > 0.
Keep(score) == score > 0

\* The forEach of findAssets over Object.entries(this.assets).
RECURSIVE CollectMatches(_, _, _)
CollectMatches(catalog, searchTerms, n) ==
  IF n = 0 THEN <<>>
  ELSE LET asset == catalog[n]
           score == calculateMatchScore(asset, searchTerms)
           rest  == CollectMatches(catalog, searchTerms, n - 1)
       IN  IF Keep(score)
           THEN Append(rest, [ id     |-> asset.id,
                               name   |-> asset.name,
                               type   |-> asset.type,
                               score  |-> score,
                               gender |-> asset.gender ])
           ELSE rest

\* .slice(0, 10)
MaxResults == 10

Slice(ms) == SubSeq(ms, 1, IF Len(ms) < MaxResults THEN Len(ms) ELSE MaxResults)

findAssets(catalog, desc) ==
  LET searchTerms == extractSearchTerms(desc)
      found       == CollectMatches(catalog, searchTerms, Len(catalog))
  IN  Slice(SortByScore(found))

\* mapTypeToConfigKey: typeMap[type] || null
null == "null"

mapTypeToConfigKey(type) ==
  IF \E p \in typeMap : p[1] = type
  THEN (CHOOSE p \in typeMap : p[1] = type)[2]
  ELSE null

\* buildAvatarConfig, "Determine gender from description".
malePattern ==
  { <<"m", "a", "n">>, <<"m", "a", "l", "e">>, <<"b", "o", "y">>,
    <<"g", "e", "n", "t", "l", "e", "m", "a", "n">> }

femalePattern ==
  { <<"w", "o", "m", "a", "n">>, <<"f", "e", "m", "a", "l", "e">>,
    <<"g", "i", "r", "l">>, <<"l", "a", "d", "y">> }

\* Mutant of InferGender: the female pattern is tried first.
InferGenderFemaleFirst(desc) ==
  IF MatchesWholeWord(desc, femalePattern) THEN "female"
  ELSE IF MatchesWholeWord(desc, malePattern) THEN "male"
  ELSE "neutral"

InferGender(desc) ==
  IF MatchesWholeWord(desc, malePattern) THEN "male"
  ELSE IF MatchesWholeWord(desc, femalePattern) THEN "female"
  ELSE "neutral"

\* Mutant of PutByType: every match is kept.
PutByTypeAlways(assetsByType, asset) == Append(assetsByType, asset)

\* Mutant of PutByType: a later match of equal score replaces the one kept.
PutByTypeLastWins(assetsByType, asset) ==
  IF \E k \in 1..Len(assetsByType) : assetsByType[k].type = asset.type
  THEN [k \in 1..Len(assetsByType) |->
          IF assetsByType[k].type = asset.type /\ assetsByType[k].score <= asset.score
          THEN asset
          ELSE assetsByType[k]]
  ELSE Append(assetsByType, asset)

\* buildAvatarConfig, one step of "Group assets by type and pick the best
\* match for each".  assetsByType is an object: its entries stay in the order
\* their keys were first assigned, and assigning to a key it has replaces the
\* value in place.
PutByType(assetsByType, asset) ==
  IF \E k \in 1..Len(assetsByType) : assetsByType[k].type = asset.type
  THEN [k \in 1..Len(assetsByType) |->
          IF assetsByType[k].type = asset.type /\ assetsByType[k].score < asset.score
          THEN asset
          ELSE assetsByType[k]]
  ELSE Append(assetsByType, asset)

RECURSIVE GroupByType(_, _)
GroupByType(found, n) ==
  IF n = 0 THEN <<>> ELSE PutByType(GroupByType(found, n - 1), found[n])

\* Mutant of PutConfig: the key is written without the if (configKey) test.
PutConfigUnchecked(config, asset) ==
  LET configKey == mapTypeToConfigKey(asset.type)
  IN  [k \in DOMAIN config \cup {configKey} |->
         IF k = configKey THEN asset.id ELSE config[k]]

\* buildAvatarConfig, one step of "Map to Ready Player Me configuration
\* format": config[configKey] = asset.id when the type has a key.
PutConfig(config, asset) ==
  LET configKey == mapTypeToConfigKey(asset.type)
  IN  IF configKey # null
      THEN [k \in DOMAIN config \cup {configKey} |->
              IF k = configKey THEN asset.id ELSE config[k]]
      ELSE config

RECURSIVE BuildConfig(_, _)
BuildConfig(assetsByType, n) ==
  IF n = 0 THEN <<>> ELSE PutConfig(BuildConfig(assetsByType, n - 1), assetsByType[n])

buildAvatarConfig(catalog, desc) ==
  LET genderMatch  == InferGender(desc)
      found        == findAssets(catalog, desc)
      assetsByType == GroupByType(found, Len(found))
      config       == BuildConfig(assetsByType, Len(assetsByType))
  IN  [ gender |-> genderMatch,
        assets |-> assetsByType,
        config |-> config ]

-----------------------------------------------------------------------------
(* AnimationControls: the table of animations and the buttons rendered    *)
(* from it (the names are given without their emoji)                      *)

ANIMATIONS ==
  << [ name |-> "Idle", type |-> "idle", category |-> "basic" ],
     [ name |-> "Walk", type |-> "walk", category |-> "basic" ],
     [ name |-> "Run", type |-> "run", category |-> "basic" ],
     [ name |-> "Jump", type |-> "jump", category |-> "basic" ],
     [ name |-> "Jog", type |-> "jog", category |-> "movement" ],
     [ name |-> "Walk 2", type |-> "walk2", category |-> "movement" ],
     [ name |-> "Run 2", type |-> "run2", category |-> "movement" ],
     [ name |-> "Strafe Left", type |-> "strafe_left", category |-> "movement" ],
     [ name |-> "Strafe Right", type |-> "strafe_right", category |-> "movement" ],
     [ name |-> "Walk Back", type |-> "walk_backward", category |-> "movement" ],
     [ name |-> "Jog Back", type |-> "jog_backward", category |-> "movement" ],
     [ name |-> "Crouch", type |-> "crouch", category |-> "movement" ],
     [ name |-> "Fall", type |-> "fall", category |-> "movement" ],
     [ name |-> "Idle 2", type |-> "idle2", category |-> "idle" ],
     [ name |-> "Idle 3", type |-> "idle3", category |-> "idle" ],
     [ name |-> "Idle 4", type |-> "idle4", category |-> "idle" ],
     [ name |-> "Idle 5", type |-> "idle5", category |-> "idle" ],
     [ name |-> "Idle 6", type |-> "idle6", category |-> "idle" ],
     [ name |-> "Idle 7", type |-> "idle7", category |-> "idle" ],
     [ name |-> "Happy", type |-> "happy", category |-> "expression" ],
     [ name |-> "Sad", type |-> "sad", category |-> "expression" ],
     [ name |-> "Angry", type |-> "angry", category |-> "expression" ],
     [ name |-> "Surprised", type |-> "surprised", category |-> "expression" ],
     [ name |-> "Think", type |-> "think", category |-> "expression" ],
     [ name |-> "Confused", type |-> "confused", category |-> "expression" ],
     [ name |-> "Wave", type |-> "wave", category |-> "gesture" ],
     [ name |-> "Talk 1", type |-> "talk", category |-> "gesture" ],
     [ name |-> "Talk 2", type |-> "talk2", category |-> "gesture" ],
     [ name |-> "Talk 3", type |-> "talk3", category |-> "gesture" ],
     [ name |-> "Talk 4", type |-> "talk4", category |-> "gesture" ],
     [ name |-> "Talk 5", type |-> "talk5", category |-> "gesture" ],
     [ name |-> "Dance 1", type |-> "dance", category |-> "dance" ],
     [ name |-> "Dance 2", type |-> "dance2", category |-> "dance" ],
     [ name |-> "Dance 3", type |-> "dance3", category |-> "dance" ],
     [ name |-> "Dance 4", type |-> "dance4", category |-> "dance" ],
     [ name |-> "Dance 5", type |-> "dance5", category |-> "dance" ],
     [ name |-> "Dance 6", type |-> "dance6", category |-> "dance" ],
     [ name |-> "Dance 7", type |-> "dance7", category |-> "dance" ],
     [ name |-> "Dance 8", type |-> "dance8", category |-> "dance" ],
     [ name |-> "Dance 9", type |-> "dance9", category |-> "dance" ],
     [ name |-> "Dance 10", type |-> "dance10", category |-> "dance" ],
     [ name |-> "Dance 11", type |-> "dance11", category |-> "dance" ],
     [ name |-> "Dance 12", type |-> "dance12", category |-> "dance" ],
     [ name |-> "Dance 13", type |-> "dance13", category |-> "dance" ] >>

categories == <<"basic", "movement", "idle", "expression", "gesture", "dance">>

\* groupedAnimations: per category, the entries of ANIMATIONS of the category.
groupedAnimations ==
  [cat \in { categories[k] : k \in 1..Len(categories) } |->
     SelectSeq(ANIMATIONS, LAMBDA anim : anim.category = cat)]

\* The buttons of the first n categories, in rendering order: one button per
\* entry of each group, a group without entries rendering nothing.
RECURSIVE ButtonsOf(_)
ButtonsOf(n) ==
  IF n = 0 THEN <<>> ELSE ButtonsOf(n - 1) \o groupedAnimations[categories[n]]

Buttons == ButtonsOf(Len(categories))

\* The animation types a button passes to onAnimationChange.
OfferedTypes == { Buttons[i].type : i \in 1..Len(Buttons) }

-----------------------------------------------------------------------------
(* FinalAnimator: the AnimatedAvatar component                            *)

singlePlayAnimations ==
  { "jump", "wave", "fall", "happy", "sad", "angry", "surprised", "think", "confused" }

talkingAnimations == { "talk", "talk2", "talk3", "talk4", "talk5" }

visemes ==
  { "viseme_sil", "viseme_PP", "viseme_FF", "viseme_TH", "viseme_DD",
    "viseme_kk", "viseme_CH", "viseme_SS", "viseme_nn", "mouthOpen" }

\* A skinned mesh of an avatar scene: whether it has a morphTargetDictionary
\* and the names in it.
HeadMesh   == [ hasDictionary |-> TRUE,  targets |-> {"viseme_sil", "viseme_PP", "mouthOpen", "eyeBlinkLeft"} ]
BrowMesh   == [ hasDictionary |-> TRUE,  targets |-> {"browInnerUp"} ]
OutfitMesh == [ hasDictionary |-> FALSE, targets |-> {} ]

\* The avatar scenes shown, each as its skinned meshes in traversal order:
\* a mesh with morph targets that are no visemes, a head alone, and a head
\* followed by an outfit.
Avatars == { <<BrowMesh>>, <<HeadMesh>>, <<HeadMesh, OutfitMesh>> }

\* Some mesh of the scene has a viseme morph target.
HasVisemes(scene) ==
  \E i \in 1..Len(scene) :
    scene[i].hasDictionary /\ scene[i].targets \cap visemes # {}

\* The animation types the behaviours of SpecAnimator select.
PlayedTypes == { "idle", "jump", "talk" }

\* The component before its first render: the refs hold their initial
\* values (a null ref is the empty sequence, a null mixer is 0, a null timer
\* id is FALSE), the state animationsLoaded is the empty set.
NoAnimator ==
  [ mounted            |-> FALSE,   \* group.current is set
    avatarScene        |-> <<>>,    \* the skinned meshes of useGLTF(avatarUrl).scene
    animationType      |-> "idle",  \* the prop
    mixerRef           |-> 0,       \* the number of the mixer, counted from 1
    skinnedMeshRef     |-> <<>>,
    actionsRef         |-> <<>>,    \* per loaded type: the mixer its action belongs to
    animationsLoaded   |-> {},
    lipSyncIntervalRef |-> FALSE,
    intervals          |-> 0,       \* the interval timers set and not cleared
    loading            |-> [t \in OfferedTypes |-> 0],  \* loader.load calls in flight
    playing            |-> <<>>,    \* the action played: its type, mixer and loop mode
    effectPending      |-> FALSE,   \* a render is committed, its play effect not yet run
    selections         |-> 0,
    avatarChanges      |-> 0 ]

\* Mutant of stopLipSync: the ref is reset, the timer is not cleared.
stopLipSyncKeepingTimer(s) ==
  [s EXCEPT !.lipSyncIntervalRef = FALSE]

\* stopLipSync
stopLipSync(s) ==
  IF s.lipSyncIntervalRef
  THEN [s EXCEPT !.lipSyncIntervalRef = FALSE, !.intervals = @ - 1]
  ELSE s

\* startLipSync
startLipSync(s) ==
  IF s.skinnedMeshRef = <<>> \/ ~s.skinnedMeshRef[1].hasDictionary THEN s
  ELSE LET availableVisemes == visemes \cap s.skinnedMeshRef[1].targets
       IN  IF availableVisemes = {} THEN s
           ELSE [s EXCEPT !.lipSyncIntervalRef = TRUE, !.intervals = @ + 1]

\* loadAnimation, up to the call of loader.load
loadAnimation(s, animType) ==
  IF animType \in s.animationsLoaded \/ s.mixerRef = 0 \/ ~s.mounted THEN s
  ELSE [s EXCEPT !.loading[animType] = @ + 1]

\* The effect "Setup avatar once": a new mixer, the last skinned mesh of the
\* traversal in skinnedMeshRef, and the load of idle.
setupEffect(s) ==
  IF ~s.mounted THEN s
  ELSE LET scene == s.avatarScene
       IN  loadAnimation(
             [s EXCEPT !.mixerRef = @ + 1,
                       !.skinnedMeshRef =
                          IF scene = <<>> THEN @ ELSE <<scene[Len(scene)]>>],
             "idle")

\* The cleanup of the setup effect.
setupCleanup(s) ==
  LET t == stopLipSync(s)
  IN  IF t.mixerRef # 0 /\ t.playing # <<>> /\ t.playing[1].mixer = t.mixerRef
      THEN [t EXCEPT !.playing = <<>>]
      ELSE t

\* The effect "Play the selected animation"
playEffect(s) ==
  IF s.mixerRef = 0 THEN s
  ELSE LET currentAnimationType == s.animationType
       IN  IF currentAnimationType \notin DOMAIN s.actionsRef
           THEN loadAnimation(s, currentAnimationType)
           ELSE LET stopped == stopLipSync([s EXCEPT !.playing = <<>>])
                    played  ==
                      [stopped EXCEPT !.playing =
                         << [ type  |-> currentAnimationType,
                              mixer |-> s.actionsRef[currentAnimationType],
                              loop  |-> IF currentAnimationType \in singlePlayAnimations
                                        THEN "LoopOnce" ELSE "LoopRepeat" ] >>]
                IN  IF currentAnimationType \in talkingAnimations
                    THEN startLipSync(played)
                    ELSE played

\* The component after its first commit: both effects have run.
Mounted(scene, type) ==
  playEffect(setupEffect(
    [NoAnimator EXCEPT !.mounted = TRUE, !.avatarScene = scene, !.animationType = type]))

-----------------------------------------------------------------------------
(* App: the characters and their persistence *)

GlbMark    == <<".", "g", "l", "b">>
JsonMark   == <<".", "j", "s", "o", "n">>
OutfitMark == <<"o", "u", "t", "f", "i", "t", "=", "o", "u", "t", "f", "i", "t", "_">>

\* "a.glb"
UrlGlb == <<"a", ".", "g", "l", "b">>

\* "c.json"
UrlJson == <<"c", ".", "j", "s", "o", "n">>

\* "d.glb?outfit=outfit_1"
UrlOldOutfit ==
  <<"d", ".", "g", "l", "b", "?", "o", "u", "t", "f", "i", "t", "=", "o", "u", "t", "f", "i", "t", "_", "1">>

\* The URLs the avatar creator hands to addCharacter.
CreatedUrls == { <<>>, UrlGlb, UrlJson, UrlOldOutfit }

\* The animation types the behaviours of SpecApp select.
AppAnimations == { "idle", "talk" }

\* addCharacter: the test of the URL.
IsValidAvatarUrl(avatarUrl) ==
  ~(\/ avatarUrl = <<>>
    \/ ~StrIncludes(avatarUrl, GlbMark)
    \/ StrIncludes(avatarUrl, OutfitMark))

\* The load effect: the filter of the saved characters.
IsLoadableUrl(avatarUrl) ==
  /\ avatarUrl # <<>>
  /\ StrIncludes(avatarUrl, GlbMark) \/ StrIncludes(avatarUrl, JsonMark)
  /\ ~StrIncludes(avatarUrl, OutfitMark)

\* localStorage without the key 'rpm-characters'.
NoItem == [ state |-> "absent", list |-> <<>> ]

\* A value of the key that JSON.parse rejects.
CorruptItem == [ state |-> "corrupt", list |-> <<>> ]

\* JSON.stringify(characters): every field of a character is a string or a
\* number, which JSON.parse gives back as it was.
Stringify(characters) == [ state |-> "list", list |-> characters ]

\* An entry written by an earlier version of the program: one character
\* with a .json URL and one with an old outfit URL.
LegacyItem ==
  Stringify(<< [ id |-> 1, name |-> 1, avatarUrl |-> UrlJson, currentAnimation |-> "talk" ],
               [ id |-> 2, name |-> 2, avatarUrl |-> UrlOldOutfit, currentAnimation |-> "idle" ] >>)

\* The App before its effects: the initial values of its three states. A
\* null selectedCharacterId is 0; uuids counts the ids crypto.randomUUID gave.
FreshApp(storage, uuids) ==
  [ characters          |-> <<>>,
    showCreator         |-> FALSE,
    selectedCharacterId |-> 0,
    storage             |-> storage,
    uuids               |-> uuids ]

NoApp == FreshApp(NoItem, 0)

\* The effect "Load saved characters from localStorage on mount"
loadEffect(a) ==
  IF a.storage.state = "absent" THEN a
  ELSE IF a.storage.state = "corrupt" THEN [a EXCEPT !.storage = NoItem]
  ELSE LET parsedCharacters == a.storage.list
           kept == SelectSeq(parsedCharacters, LAMBDA char : IsLoadableUrl(char.avatarUrl))
           validCharacters ==
             [i \in 1..Len(kept) |-> [kept[i] EXCEPT !.currentAnimation = "idle"]]
       IN  [a EXCEPT !.characters = validCharacters,
                     !.storage = IF Len(validCharacters) # Len(parsedCharacters)
                                 THEN Stringify(validCharacters)
                                 ELSE @]

\* The effect "Save characters to localStorage whenever they change"
saveEffect(a) ==
  IF Len(a.characters) > 0
  THEN [a EXCEPT !.storage = Stringify(a.characters)]
  ELSE a

\* The page is opened: the load effect, the save effect of the first render
\* (characters is empty: nothing written) and the save effect of the render
\* that setCharacters caused.
Opened(storage, uuids) == saveEffect(loadEffect(saveEffect(FreshApp(storage, uuids))))

-----------------------------------------------------------------------------
(* The fetchAssets script *)

MAX_RETRIES == 3

\* "Save partial results every 50 pages"
SavePeriod == 50

\* The assets the API lists on a page: one per page, its id the number of
\* the page.
PageData(p) == IF p <= NumPages THEN <<p>> ELSE <<>>

\* An ok response for a page: the pages the API has carry data and
\* pagination, a page behind the last one carries neither.
Response(p) ==
  [ hasData     |-> p <= NumPages,
    data        |-> PageData(p),
    hasNextPage |-> p < NumPages ]

\* The values of an object keyed by the ids of the assets: every id once,
\* in the order of its first insertion.
ValuesById(list) ==
  LET indexed == [i \in 1..Len(list) |-> <<i, list[i]>>]
      IsFirst(e) == \A j \in 1..(e[1] - 1) : list[j] # e[2]
      firsts == SelectSeq(indexed, IsFirst)
  IN  [k \in 1..Len(firsts) |-> firsts[k][2]]

NoFile == [ exists |-> FALSE, lastPage |-> 0, totalCount |-> 0, assets |-> <<>> ]

\* The script before its first run: no rpmAssets_partial.json, no
\* rpmAssets.json. API_KEY is set.
NoFetcher ==
  [ pc                |-> "idle",   \* "idle" | "fetching" | "finished"
    allAssets         |-> <<>>,
    page              |-> 1,
    hasMore           |-> TRUE,
    consecutiveErrors |-> 0,
    partial           |-> NoFile,   \* rpmAssets_partial.json
    output            |-> FALSE,    \* rpmAssets.json is written
    stopped           |-> "none",   \* how the last run ended: "complete" | "retries" | "killed"
    savedThisRun      |-> FALSE,    \* savePartialResults was called in this run
    runs              |-> 0 ]

\* savePartialResults(assets, lastPage)
savePartialResults(f, list, lastPage) ==
  [f EXCEPT !.partial = [ exists     |-> TRUE,
                          lastPage   |-> lastPage,
                          totalCount |-> Len(list),
                          assets     |-> ValuesById(list) ],
            !.savedThisRun = TRUE]

\* The loop is left: the assets are organised and rpmAssets.json is written.
finish(f, reason) ==
  [f EXCEPT !.pc = "finished", !.output = TRUE, !.stopped = reason]

-----------------------------------------------------------------------------
(* The calls *)

NoAvatar == [ gender |-> "none", assets |-> <<>>, config |-> <<>> ]

NoTerms ==
  [ colors |-> <<>>, materials |-> <<>>, types |-> <<>>, styles |-> <<>>,
    gender |-> <<>>, keywords |-> <<>> ]

\* No caller of SpecConcurrent has made a request.
NoCallers == <<>>

\* The number of findAssets calls made so far with description d.
Calls(d) == IF d \in DOMAIN returned THEN returned[d].calls ELSE 0

\* The history after findAssets(d) returned ms.
Record(d, ms) ==
  IF d \in DOMAIN returned
  THEN [returned EXCEPT ![d].calls = @ + 1]
  ELSE [x \in DOMAIN returned \cup {d} |->
          IF x = d THEN [first |-> ms, calls |-> 1] ELSE returned[x]]

\* new AssetMapper(): this.assets = SAMPLE_ASSETS
Init ==
  /\ assets = SAMPLE_ASSETS
  /\ description \in Descriptions
  /\ pc = "idle"
  /\ matches = <<>>
  /\ avatar = NoAvatar
  /\ returned = <<>>
  /\ terms = NoTerms
  /\ callers = NoCallers
  /\ animator = NoAnimator
  /\ app = NoApp
  /\ fetcher = NoFetcher

\* The catalog ordered by the scores of one description (stable).
RECURSIVE SortCatalog(_, _, _)
SortCatalog(catalog, desc, n) ==
  IF n = 0 THEN <<>>
  ELSE LET rest  == SortCatalog(catalog, desc, n - 1)
           score(a) == calculateMatchScore(a, extractSearchTerms(desc))
       IN  SelectSeq(rest, LAMBDA a : score(a) >= score(catalog[n]))
             \o <<catalog[n]>>
             \o SelectSeq(rest, LAMBDA a : score(a) < score(catalog[n]))

\* Mutant of FindAssets: the sort is done on the shared catalog, in place.
FindAssetsSortingCatalog ==
  /\ pc = "idle"
  /\ Calls(description) < MaxCalls
  /\ matches' = findAssets(assets, description)
  /\ returned' = Record(description, matches')
  /\ pc' = "findAssets"
  /\ assets' = SortCatalog(assets, description, Len(assets))
  /\ terms' = extractSearchTerms(description)
  /\ UNCHANGED <<description, avatar, callers, animator, app, fetcher>>

\* A caller calls findAssets(description).
FindAssets ==
  /\ pc = "idle"
  /\ Calls(description) < MaxCalls
  /\ matches' = findAssets(assets, description)
  /\ returned' = Record(description, matches')
  /\ pc' = "findAssets"
  /\ terms' = extractSearchTerms(description)
  /\ UNCHANGED <<assets, description, avatar, callers, animator, app, fetcher>>

\* A caller calls buildAvatarConfig(description), which calls findAssets.
BuildAvatarConfig ==
  /\ pc = "idle"
  /\ Calls(description) < MaxCalls
  /\ matches' = findAssets(assets, description)
  /\ avatar' = buildAvatarConfig(assets, description)
  /\ returned' = Record(description, matches')
  /\ pc' = "buildAvatarConfig"
  /\ terms' = extractSearchTerms(description)
  /\ UNCHANGED <<assets, description, callers, animator, app, fetcher>>

Next == FindAssets \/ BuildAvatarConfig

Spec == Init /\ [][Next]_vars


-----------------------------------------------------------------------------
(* A caller that makes several calls, one after the other *)

\* "male"
DescMale == <<"m", "a", "l", "e">>

\* "casual"
DescCasual == <<"c", "a", "s", "u", "a", "l">>

CallDescriptions == { ExLeatherJacket, ExIndianMan, DescMale, DescCasual }

InitCalls ==
  /\ assets = SAMPLE_ASSETS
  /\ description \in CallDescriptions
  /\ pc = "idle"
  /\ matches = <<>>
  /\ avatar = NoAvatar
  /\ returned = <<>>
  /\ terms = NoTerms
  /\ callers = NoCallers
  /\ animator = NoAnimator
  /\ app = NoApp
  /\ fetcher = NoFetcher

\* The caller takes the returned value and prepares its next call.
Describe ==
  /\ pc # "idle"
  /\ \E d \in CallDescriptions : description' = d
  /\ pc' = "idle"
  /\ matches' = <<>>
  /\ avatar' = NoAvatar
  /\ terms' = NoTerms
  /\ UNCHANGED <<assets, returned, callers, animator, app, fetcher>>

NextCalls == FindAssets \/ BuildAvatarConfig \/ Describe

SpecCalls == InitCalls /\ [][NextCalls]_vars

-----------------------------------------------------------------------------
(* Several callers and several AssetMapper instances *)

\* Every instance's this.assets is a reference to the one module-level
\* SAMPLE_ASSETS object: the variable `assets` is that object.
NumMappers == 2

ConcurrentDescriptions == { ExLeatherJacket, DescCasual }

Idle == [ state |-> "idle" ]

InitConcurrent ==
  /\ assets = SAMPLE_ASSETS
  /\ description = <<>>
  /\ pc = "idle"
  /\ matches = <<>>
  /\ avatar = NoAvatar
  /\ returned = <<>>
  /\ terms = NoTerms
  /\ callers = [c \in 1..NumCallers |-> Idle]
  /\ animator = NoAnimator
  /\ app = NoApp
  /\ fetcher = NoFetcher

\* Caller c asks an instance for findAssets(d) or buildAvatarConfig(d); the
\* call has not run yet (the event loop runs one call at a time).
Request(c) ==
  /\ callers[c].state = "idle"
  /\ \E i \in 1..NumMappers, op \in {"findAssets", "buildAvatarConfig"},
        d \in ConcurrentDescriptions :
       callers' = [callers EXCEPT ![c] =
                     [ state |-> "pending", mapper |-> i, op |-> op, description |-> d ]]
  /\ UNCHANGED <<mapperVars, animator, app, fetcher>>

\* Mutant of Execute: the call sorts the shared catalog in place.
ExecuteSortingCatalog(c) ==
  /\ callers[c].state = "pending"
  /\ LET d == callers[c].description
         r == IF callers[c].op = "findAssets"
              THEN findAssets(assets, d)
              ELSE buildAvatarConfig(assets, d)
     IN  /\ callers' = [callers EXCEPT ![c] =
                          [ state |-> "returned", mapper |-> callers[c].mapper,
                            op |-> callers[c].op, description |-> d, result |-> r ]]
         /\ assets' = SortCatalog(assets, d, Len(assets))
  /\ UNCHANGED <<description, pc, matches, avatar, returned, terms, animator, app, fetcher>>

\* The pending call of caller c runs, from its first statement to its return.
Execute(c) ==
  /\ callers[c].state = "pending"
  /\ LET d == callers[c].description
         r == IF callers[c].op = "findAssets"
              THEN findAssets(assets, d)
              ELSE buildAvatarConfig(assets, d)
     IN  callers' = [callers EXCEPT ![c] =
                       [ state |-> "returned", mapper |-> callers[c].mapper,
                         op |-> callers[c].op, description |-> d, result |-> r ]]
  /\ UNCHANGED <<mapperVars, animator, app, fetcher>>

\* Caller c takes the value it got.
Take(c) ==
  /\ callers[c].state = "returned"
  /\ callers' = [callers EXCEPT ![c] = Idle]
  /\ UNCHANGED <<mapperVars, animator, app, fetcher>>

NextConcurrent == \E c \in 1..NumCallers : Request(c) \/ Execute(c) \/ Take(c)

SpecConcurrent == InitConcurrent /\ [][NextConcurrent]_vars

-----------------------------------------------------------------------------
(* A catalog with an entry whose type mapTypeToConfigKey does not know *)

\* SAMPLE_ASSETS and, behind it, an entry "Black Cape" of type cape with
\* the tags cape, black and costume.
CatalogWithUnmappedType ==
  Append(SAMPLE_ASSETS,
         [ id     |-> "cape_black",
           name   |-> <<"B", "l", "a", "c", "k", " ", "C", "a", "p", "e">>,
           type   |-> <<"c", "a", "p", "e">>,
           gender |-> << <<"m", "a", "l", "e">>, <<"f", "e", "m", "a", "l", "e">> >>,
           tags   |-> << <<"c", "a", "p", "e">>, <<"b", "l", "a", "c", "k">>,
                         <<"c", "o", "s", "t", "u", "m", "e">> >> ])

InitCatalog ==
  /\ assets \in {SAMPLE_ASSETS, CatalogWithUnmappedType}
  /\ description \in Descriptions
  /\ pc = "idle"
  /\ matches = <<>>
  /\ avatar = NoAvatar
  /\ returned = <<>>
  /\ terms = NoTerms
  /\ callers = NoCallers
  /\ animator = NoAnimator
  /\ app = NoApp
  /\ fetcher = NoFetcher

SpecCatalog == InitCatalog /\ [][Next]_vars

-----------------------------------------------------------------------------
(* Descriptions of garment types and colours *)

RankingWords ==
  { <<"j", "a", "c", "k", "e", "t">>,
    <<"j", "e", "a", "n", "s">>,
    <<"b", "l", "a", "c", "k">>,
    <<"b", "l", "u", "e">>,
    <<"w", "h", "i", "t", "e">> }

\* The descriptions of one to MaxWords + 1 of these words.
RankingDescriptions ==
  { Join(ws) : ws \in UNION { [1..n -> RankingWords] : n \in 1..(MaxWords + 1) } }

InitRanking ==
  /\ assets = SAMPLE_ASSETS
  /\ description \in RankingDescriptions
  /\ pc = "idle"
  /\ matches = <<>>
  /\ avatar = NoAvatar
  /\ returned = <<>>
  /\ terms = NoTerms
  /\ callers = NoCallers
  /\ animator = NoAnimator
  /\ app = NoApp
  /\ fetcher = NoFetcher

SpecRanking == InitRanking /\ [][Next]_vars

-----------------------------------------------------------------------------
(* The events of a mounted AnimatedAvatar *)

\* The catalog side is at rest while the animator runs.
MapperAtRest ==
  /\ assets = SAMPLE_ASSETS
  /\ description = <<>>
  /\ pc = "idle"
  /\ matches = <<>>
  /\ avatar = NoAvatar
  /\ returned = <<>>
  /\ terms = NoTerms
  /\ callers = NoCallers

\* onAnimationChange(type): the prop animationType becomes type; the click
\* is rendered and, the prop having changed, the play effect runs.
Select(type) ==
  /\ animator.mounted
  /\ ~animator.effectPending
  /\ LET s == [animator EXCEPT !.animationType = type, !.selections = @ + 1]
     IN  animator' = IF type = animator.animationType THEN s ELSE playEffect(s)
  /\ UNCHANGED <<mapperVars, callers, app, fetcher>>

\* A selection in SpecAnimator.
SelectAnimation(type) ==
  /\ animator.selections < MaxSelections
  /\ Select(type)

\* The click of the i-th button of AnimationControls.
ClickButton(i) ==
  /\ animator.selections < MaxClicks
  /\ Select(Buttons[i].type)

\* The onLoad callback of loader.load for animType: the action is made on
\* the mixer of that moment, and setAnimationsLoaded schedules a render.
LoadSuccess(animType) ==
  /\ animator.loading[animType] > 0
  /\ LET s == [animator EXCEPT !.loading[animType] = @ - 1]
     IN  animator' =
           IF s.mixerRef # 0 /\ s.mounted
           THEN [s EXCEPT
                   !.actionsRef = [t \in DOMAIN s.actionsRef \cup {animType} |->
                                     IF t = animType THEN s.mixerRef ELSE s.actionsRef[t]],
                   !.animationsLoaded = @ \cup {animType},
                   !.effectPending = TRUE]
           ELSE s
  /\ UNCHANGED <<mapperVars, callers, app, fetcher>>

\* The onError callback of loader.load, or a file without animations.
LoadFailure(animType) ==
  /\ animator.loading[animType] > 0
  /\ animator' = [animator EXCEPT !.loading[animType] = @ - 1]
  /\ UNCHANGED <<mapperVars, callers, app, fetcher>>

\* The play effect of the render that a load scheduled.
PlayEffect ==
  /\ animator.mounted
  /\ animator.effectPending
  /\ animator' = playEffect([animator EXCEPT !.effectPending = FALSE])
  /\ UNCHANGED <<mapperVars, callers, app, fetcher>>

\* Another character is selected: the same component instance gets another
\* avatarUrl and that character's animation. The setup effect is cleaned up
\* and runs again; the play effect runs if the animation type differs.
AvatarChange(scene, type) ==
  /\ animator.mounted
  /\ ~animator.effectPending
  /\ animator.avatarChanges < MaxAvatarChanges
  /\ scene # animator.avatarScene
  /\ LET cleaned == setupCleanup(animator)
         setup   == setupEffect([cleaned EXCEPT !.avatarScene = scene,
                                                !.animationType = type,
                                                !.avatarChanges = @ + 1])
     IN  animator' = IF type = animator.animationType THEN setup ELSE playEffect(setup)
  /\ UNCHANGED <<mapperVars, callers, app, fetcher>>

\* The component is unmounted: the cleanup runs, the refs of the elements
\* are detached and the scheduled render is dropped.
Unmount ==
  /\ animator.mounted
  /\ animator' = [setupCleanup(animator) EXCEPT !.mounted = FALSE, !.effectPending = FALSE]
  /\ UNCHANGED <<mapperVars, callers, app, fetcher>>

InitAnimator ==
  /\ MapperAtRest
  /\ app = NoApp
  /\ fetcher = NoFetcher
  /\ animator \in { Mounted(scene, type) : scene \in Avatars, type \in PlayedTypes }

NextAnimator ==
  \/ \E type \in PlayedTypes : SelectAnimation(type)
  \/ \E type \in PlayedTypes : LoadSuccess(type)
  \/ \E type \in PlayedTypes : LoadFailure(type)
  \/ PlayEffect
  \/ \E scene \in Avatars, type \in PlayedTypes : AvatarChange(scene, type)
  \/ Unmount

SpecAnimator == InitAnimator /\ [][NextAnimator]_vars

\* A character is shown with its controls: a new character starts with idle.
InitControls ==
  /\ MapperAtRest
  /\ app = NoApp
  /\ fetcher = NoFetcher
  /\ animator \in { Mounted(scene, "idle") : scene \in Avatars }

NextControls ==
  \/ \E i \in 1..Len(Buttons) : ClickButton(i)
  \/ \E type \in OfferedTypes : LoadSuccess(type)
  \/ \E type \in OfferedTypes : LoadFailure(type)
  \/ PlayEffect

SpecControls == InitControls /\ [][NextControls]_vars

-----------------------------------------------------------------------------
(* The events of App *)

\* The character with the given id is in the list.
HasCharacter(characters, id) == \E i \in 1..Len(characters) : characters[i].id = id

\* The "Create Avatar" buttons: setShowCreator(true)
OpenCreator ==
  /\ ~app.showCreator
  /\ app' = [app EXCEPT !.showCreator = TRUE]
  /\ UNCHANGED <<mapperVars, callers, animator, fetcher>>

\* The "Cancel" button of the creator: setShowCreator(false)
CancelCreator ==
  /\ app.showCreator
  /\ app' = [app EXCEPT !.showCreator = FALSE]
  /\ UNCHANGED <<mapperVars, callers, animator, fetcher>>

\* onAvatarCreated(url) -> addCharacter(url), then the save effect.
AddCharacter(avatarUrl) ==
  /\ app.showCreator
  /\ app.uuids < MaxCharacters
  /\ IF ~IsValidAvatarUrl(avatarUrl)
     THEN app' = app
     ELSE LET newCharacter ==
                [ id |-> app.uuids + 1,
                  name |-> Len(app.characters) + 1,
                  avatarUrl |-> avatarUrl,
                  currentAnimation |-> "idle" ]
          IN  app' = saveEffect([app EXCEPT !.characters = Append(@, newCharacter),
                                            !.selectedCharacterId = newCharacter.id,
                                            !.showCreator = FALSE,
                                            !.uuids = @ + 1])
  /\ UNCHANGED <<mapperVars, callers, animator, fetcher>>

\* An animation button: updateCharacterAnimation(selectedCharacter.id, type),
\* then the save effect.
UpdateCharacterAnimation(animationType) ==
  /\ ~app.showCreator
  /\ HasCharacter(app.characters, app.selectedCharacterId)
  /\ app' = saveEffect(
       [app EXCEPT !.characters =
          [i \in 1..Len(@) |->
             IF @[i].id = app.selectedCharacterId
             THEN [@[i] EXCEPT !.currentAnimation = animationType]
             ELSE @[i]]])
  /\ UNCHANGED <<mapperVars, callers, animator, fetcher>>

\* Mutant of RemoveCharacter: the selection is not reset.
RemoveCharacterKeepingSelection(id) ==
  /\ HasCharacter(app.characters, id)
  /\ app' = saveEffect(
       [app EXCEPT !.characters = SelectSeq(@, LAMBDA char : char.id # id)])
  /\ UNCHANGED <<mapperVars, callers, animator, fetcher>>

\* The delete button of a list item: removeCharacter(id), then the save effect.
RemoveCharacter(id) ==
  /\ HasCharacter(app.characters, id)
  /\ app' = saveEffect(
       [app EXCEPT !.characters = SelectSeq(@, LAMBDA char : char.id # id),
                   !.selectedCharacterId = IF @ = id THEN 0 ELSE @])
  /\ UNCHANGED <<mapperVars, callers, animator, fetcher>>

\* A click on a list item: setSelectedCharacterId(char.id)
SelectCharacter(id) ==
  /\ HasCharacter(app.characters, id)
  /\ app' = [app EXCEPT !.selectedCharacterId = id]
  /\ UNCHANGED <<mapperVars, callers, animator, fetcher>>

\* The page is loaded again: the states start anew, localStorage stays.
Reload ==
  /\ app' = Opened(app.storage, app.uuids)
  /\ UNCHANGED <<mapperVars, callers, animator, fetcher>>

\* The page is opened with no entry, with an entry that does not parse, or
\* with an entry of an earlier version.
InitApp ==
  /\ MapperAtRest
  /\ animator = NoAnimator
  /\ fetcher = NoFetcher
  /\ app \in { Opened(NoItem, 0), Opened(CorruptItem, 0), Opened(LegacyItem, 2) }

NextApp ==
  \/ OpenCreator
  \/ CancelCreator
  \/ \E avatarUrl \in CreatedUrls : AddCharacter(avatarUrl)
  \/ \E animationType \in AppAnimations : UpdateCharacterAnimation(animationType)
  \/ \E id \in 1..MaxCharacters : RemoveCharacter(id)
  \/ \E id \in 1..MaxCharacters : SelectCharacter(id)
  \/ Reload

SpecApp == InitApp /\ [][NextApp]_vars

-----------------------------------------------------------------------------
(* The runs of the fetchAssets script *)

\* node fetchAssets.js: the locals are initialised and a partial save of an
\* earlier run is loaded.
StartRun ==
  /\ fetcher.pc \in {"idle", "finished"}
  /\ fetcher.runs < MaxRuns
  /\ fetcher' =
       [fetcher EXCEPT
          !.pc = "fetching",
          !.allAssets = IF fetcher.partial.exists THEN fetcher.partial.assets ELSE <<>>,
          !.page = IF fetcher.partial.exists THEN fetcher.partial.lastPage + 1 ELSE 1,
          !.hasMore = TRUE,
          !.consecutiveErrors = 0,
          !.stopped = "none",
          !.savedThisRun = FALSE,
          !.runs = @ + 1]
  /\ UNCHANGED <<mapperVars, callers, animator, app>>

\* Mutant of Respond503: the page is passed over.
Respond503Advancing ==
  /\ fetcher.pc = "fetching"
  /\ LET counted == [fetcher EXCEPT !.consecutiveErrors = @ + 1, !.page = @ + 1]
         saved   == savePartialResults(counted, counted.allAssets, counted.page - 1)
     IN  fetcher' = IF counted.consecutiveErrors < MAX_RETRIES
                    THEN saved
                    ELSE finish(saved, "retries")
  /\ UNCHANGED <<mapperVars, callers, animator, app>>

\* Mutant of Respond503: the partial save names the page that failed.
Respond503SavingPage ==
  /\ fetcher.pc = "fetching"
  /\ LET counted == [fetcher EXCEPT !.consecutiveErrors = @ + 1]
         saved   == savePartialResults(counted, counted.allAssets, counted.page)
     IN  fetcher' = IF counted.consecutiveErrors < MAX_RETRIES
                    THEN saved
                    ELSE finish(saved, "retries")
  /\ UNCHANGED <<mapperVars, callers, animator, app>>

\* The response to the request of the page has status 503.
Respond503 ==
  /\ fetcher.pc = "fetching"
  /\ LET counted == [fetcher EXCEPT !.consecutiveErrors = @ + 1]
         saved   == savePartialResults(counted, counted.allAssets, counted.page - 1)
     IN  fetcher' = IF counted.consecutiveErrors < MAX_RETRIES
                    THEN saved
                    ELSE finish(saved, "retries")
  /\ UNCHANGED <<mapperVars, callers, animator, app>>

\* The request fails otherwise: fetch or response.json() throws, or the
\* status is not ok; the catch branch runs.
RespondError ==
  /\ fetcher.pc = "fetching"
  /\ LET counted == [fetcher EXCEPT !.consecutiveErrors = @ + 1]
     IN  fetcher' = IF counted.consecutiveErrors < MAX_RETRIES
                    THEN counted
                    ELSE finish(counted, "retries")
  /\ UNCHANGED <<mapperVars, callers, animator, app>>

\* The response is ok: its assets are appended, every 50th page is saved,
\* and the loop goes on with the next page or ends.
RespondSuccess ==
  /\ fetcher.pc = "fetching"
  /\ LET data     == Response(fetcher.page)
         reset    == [fetcher EXCEPT !.consecutiveErrors = 0]
         pushed   == IF data.hasData
                     THEN [reset EXCEPT !.allAssets = @ \o data.data]
                     ELSE reset
         saved    == IF data.hasData /\ pushed.page % SavePeriod = 0
                     THEN savePartialResults(pushed, pushed.allAssets, pushed.page)
                     ELSE pushed
         advanced == [saved EXCEPT !.hasMore = data.hasNextPage, !.page = @ + 1]
     IN  fetcher' = IF advanced.hasMore THEN advanced ELSE finish(advanced, "complete")
  /\ UNCHANGED <<mapperVars, callers, animator, app>>

\* The process is ended from outside while it waits for a response.
Kill ==
  /\ fetcher.pc = "fetching"
  /\ fetcher' = [fetcher EXCEPT !.pc = "idle", !.stopped = "killed"]
  /\ UNCHANGED <<mapperVars, callers, animator, app>>

InitFetch ==
  /\ MapperAtRest
  /\ animator = NoAnimator
  /\ app = NoApp
  /\ fetcher = NoFetcher

NextFetch ==
  \/ StartRun
  \/ Respond503
  \/ RespondError
  \/ RespondSuccess
  \/ Kill

SpecFetch == InitFetch /\ [][NextFetch]_vars

-----------------------------------------------------------------------------
(* Vocabulary of the properties *)

\* A call has returned and `matches` holds what findAssets returned in it.
FindAssetsReturned == pc \in {"findAssets", "buildAvatarConfig"}

\* The position of the catalog entry with the given id (insertion order).
CatalogIndex(id) == CHOOSE n \in 1..Len(assets) : assets[n].id = id

\* The entry with the given id is in the list ms.
Listed(ms, id) == \E i \in 1..Len(ms) : ms[i].id = id

\* The score the list ms gives the entry with the given id.
ScoreIn(ms, id) == (CHOOSE m \in {ms[i] : i \in 1..Len(ms)} : m.id = id).score

\* The tokens of a description: its lower-cased, non-empty whitespace-separated pieces.
Tokens(desc) ==
  SelectSeq(SplitWhitespace(ToLowerCase(desc)), LAMBDA w : w # <<>>)

-----------------------------------------------------------------------------
(* C1 *)

\* C1 (as claimed): after buildAvatarConfig, every key k of config holds the
\* id of a findAssets result whose type maps to k and whose score is the
\* highest among all findAssets results whose type maps to k.
C1_ConfigHoldsBestOfKey ==
  pc = "buildAvatarConfig" =>
    \A k \in DOMAIN avatar.config :
      /\ Listed(matches, avatar.config[k])
      /\ \A i \in 1..Len(matches) :
           mapTypeToConfigKey(matches[i].type) = k =>
             ScoreIn(matches, avatar.config[k]) >= matches[i].score

-----------------------------------------------------------------------------
(* C2 *)

\* No token of the description occurs in the entry's name or in one of its
\* tags, and no token is the entry's type.
NoContentHit(asset, desc) ==
  \A t \in {Tokens(desc)[i] : i \in 1..Len(Tokens(desc))} :
    /\ ~StrIncludes(ToLowerCase(asset.name), t)
    /\ \A j \in 1..Len(asset.tags) : ~StrIncludes(asset.tags[j], t)
    /\ asset.type # t

-----------------------------------------------------------------------------
(* C3 *)

\* C3 (as claimed): for "black leather jacket for a man" the entry
\* outfit_leather_jacket_black gets +10 (jacket), +5 (black), +5 (leather) and
\* +2 (man matching the gender tag male): 22 without the generic-keyword pass.
C3_LeatherJacketScores22 ==
  (pc = "findAssets" /\ description = ExLeatherJacket) =>
    LET searchTerms == extractSearchTerms(description)
        jacket      == assets[CatalogIndex("outfit_leather_jacket_black")]
    IN  /\ TypeScore(jacket, searchTerms) = 10
        /\ ColorScore(jacket, searchTerms) = 5
        /\ MaterialScore(jacket, searchTerms) = 5
        /\ GenderScore(jacket, searchTerms) = 2
        /\ ScoreIn(matches, jacket.id) - KeywordScore(jacket, searchTerms) = 22

-----------------------------------------------------------------------------
(* C4 *)

\* C4: findAssets returns at most 10 results, each with an integer score > 0.
C4_AtMostTenPositive ==
  FindAssetsReturned =>
    /\ Len(matches) <= 10
    /\ \A i \in 1..Len(matches) : matches[i].score \in Nat /\ matches[i].score > 0

\* "male" scores every one of the ten entries: a full result.
C4_Witness == pc = "findAssets" /\ Len(matches) = 10

-----------------------------------------------------------------------------
(* C5 *)

\* C5: findAssets' result is ordered by non-increasing score, entries of
\* equal score in catalog order.
C5_SortedStable ==
  FindAssetsReturned =>
    \A i, j \in 1..Len(matches) :
      i < j =>
        \/ matches[i].score > matches[j].score
        \/ /\ matches[i].score = matches[j].score
           /\ CatalogIndex(matches[i].id) < CatalogIndex(matches[j].id)

\* A result the sort reordered (a later catalog entry in front) that also
\* holds a tie.
C5_Witness ==
  /\ pc = "findAssets"
  /\ \E i, j \in 1..Len(matches) :
       i < j /\ CatalogIndex(matches[i].id) > CatalogIndex(matches[j].id)
  /\ \E i, j \in 1..Len(matches) :
       i < j /\ matches[i].score = matches[j].score

-----------------------------------------------------------------------------
(* C6 *)

\* C6: the assets list buildAvatarConfig returns has at most one entry per type.
C6_OnePerType ==
  pc = "buildAvatarConfig" =>
    \A i, j \in 1..Len(avatar.assets) :
      i # j => avatar.assets[i].type # avatar.assets[j].type

\* findAssets returned two entries of one type and buildAvatarConfig kept one.
C6_Witness ==
  /\ pc = "buildAvatarConfig"
  /\ \E i, j \in 1..Len(matches) : i # j /\ matches[i].type = matches[j].type
  /\ Len(avatar.assets) >= 2

-----------------------------------------------------------------------------
(* C7 *)

\* The words of a description: its maximal runs of word characters, lower-cased.
WordRuns(desc) ==
  { ToLowerCase(SubSeq(desc, i, j)) :
      <<i, j>> \in { p \in (1..Len(desc)) \X (1..Len(desc)) :
                       /\ p[1] <= p[2]
                       /\ \A k \in p[1]..p[2] : IsWordChar(desc[k])
                       /\ (p[1] = 1 \/ ~IsWordChar(desc[p[1] - 1]))
                       /\ (p[2] = Len(desc) \/ ~IsWordChar(desc[p[2] + 1])) } }

\* C7: the gender is male when man, male, boy or gentleman is a word of the
\* description (case-insensitively), otherwise female when woman, female,
\* girl or lady is one, otherwise neutral; the three examples included.
C7_GenderByWholeWord ==
  pc = "buildAvatarConfig" =>
    /\ avatar.gender =
         IF WordRuns(description) \cap malePattern # {} THEN "male"
         ELSE IF WordRuns(description) \cap femalePattern # {} THEN "female"
         ELSE "neutral"
    /\ description = ExIndianMan => avatar.gender = "male"
    /\ description = ExElegantWoman => avatar.gender = "female"
    /\ description = ExPerson => avatar.gender = "neutral"

\* "elegant woman in red dress": the "man" inside "woman" did not count.
C7_Witness ==
  /\ pc = "buildAvatarConfig"
  /\ description = ExElegantWoman
  /\ avatar.gender = "female"

-----------------------------------------------------------------------------
(* C8 *)

\* The description is empty or holds whitespace only.
IsBlank(desc) == \A i \in 1..Len(desc) : IsWhitespace(desc[i])

\* C8: for the empty and for every whitespace-only description findAssets
\* returns the empty sequence and buildAvatarConfig returns gender neutral
\* with an empty assets list and an empty config.
C8_BlankGivesNothing ==
  IsBlank(description) =>
    /\ FindAssetsReturned => matches = <<>>
    /\ pc = "buildAvatarConfig" =>
         /\ avatar.gender = "neutral"
         /\ avatar.assets = <<>>
         /\ DOMAIN avatar.config = {}

\* buildAvatarConfig has returned for a description of several whitespace characters.
C8_Witness ==
  /\ pc = "buildAvatarConfig"
  /\ IsBlank(description)
  /\ Len(description) >= 2
  /\ avatar.gender = "neutral"

-----------------------------------------------------------------------------
(* C9 *)

\* What one token occurrence t adds to the score of an entry, by the table
\* of the scorer, every bucket counted on its own.
TokenWeight(asset, t) ==
  LET inName   == StrIncludes(ToLowerCase(asset.name), t)
      isTag    == t \in {asset.tags[j] : j \in 1..Len(asset.tags)}
      inSomeTag == \E j \in 1..Len(asset.tags) : StrIncludes(asset.tags[j], t)
  IN    (IF t \in clothingTypes /\ (inName \/ asset.type = t \/ isTag) THEN 10 ELSE 0)
      + (IF t \in colors /\ (inName \/ isTag) THEN 5 ELSE 0)
      + (IF t \in materials /\ (inName \/ isTag) THEN 5 ELSE 0)
      + (IF t \in styles /\ (inName \/ isTag) THEN 3 ELSE 0)
      + (IF Len(t) > 3 /\ (inName \/ inSomeTag) THEN 1 ELSE 0)

RECURSIVE SumWeights(_, _, _)
SumWeights(asset, ts, n) ==
  IF n = 0 THEN 0 ELSE SumWeights(asset, ts, n - 1) + TokenWeight(asset, ts[n])

\* 2, once, when a gender word of the description, one trailing "s" removed,
\* occurs in a lower-cased gender tag of the entry.
GenderWeight(asset, ts) ==
  IF \E i \in 1..Len(ts) :
       /\ ts[i] \in genderTerms
       /\ \E j \in 1..Len(asset.gender) :
            StrIncludes(ToLowerCase(asset.gender[j]), RemovePlural(ts[i]))
  THEN 2 ELSE 0

TableScore(asset, desc) ==
  LET ts == SplitWhitespace(ToLowerCase(desc))
  IN  SumWeights(asset, ts, Len(ts)) + GenderWeight(asset, ts)

\* C9: the score of every catalog entry is the sum over the token
\* occurrences of the weights of the table (10 type, 5 colour, 5 material,
\* 3 style, 1 generic for tokens longer than 3 characters), every bucket
\* counted without suppressing another, plus 2 once for a gender match.
C9_ScoreIsAdditive ==
  pc = "findAssets" =>
    \A n \in 1..Len(assets) :
      LET s == TableScore(assets[n], description)
      IN  IF s > 0
          THEN Listed(matches, assets[n].id) /\ ScoreIn(matches, assets[n].id) = s
          ELSE ~Listed(matches, assets[n].id)

\* "black leather jacket for a man": three buckets and the generic pass add
\* up to 23 for the leather jacket.
C9_Witness ==
  /\ pc = "findAssets"
  /\ description = ExLeatherJacket
  /\ Listed(matches, "outfit_leather_jacket_black")
  /\ ScoreIn(matches, "outfit_leather_jacket_black") = 23

-----------------------------------------------------------------------------
(* C10 *)

-----------------------------------------------------------------------------
(* C11 *)

\* What a call returns when it is the only call made on a new AssetMapper.
AloneResult(op, desc) ==
  IF op = "findAssets"
  THEN findAssets(SAMPLE_ASSETS, desc)
  ELSE buildAvatarConfig(SAMPLE_ASSETS, desc)

\* C11: whatever the order in which the overlapping requests of several
\* callers on several instances run, the shared catalog is never modified
\* and every call returns what it returns when run alone.
C11_CallsDoNotInterfere ==
  /\ assets = SAMPLE_ASSETS
  /\ \A c \in DOMAIN callers :
       callers[c].state = "returned" =>
         callers[c].result = AloneResult(callers[c].op, callers[c].description)

\* Two requests on two instances overlapped: one has returned a
\* configuration while the other, made before that return, is still pending
\* or has returned as well.
C11_Witness ==
  /\ DOMAIN callers # {}
  /\ \E c, e \in DOMAIN callers :
       /\ callers[c].state = "returned"
       /\ callers[e].state \in {"pending", "returned"}
       /\ callers[c].mapper # callers[e].mapper
       /\ callers[c].op = "buildAvatarConfig"
       /\ callers[e].op = "findAssets"
       /\ Len(callers[c].result.assets) >= 2

-----------------------------------------------------------------------------
(* C12 *)

\* The configuration keys of the retained matches whose type is in the table.
MappedKeys(retained) ==
  { mapTypeToConfigKey(retained[i].type) : i \in 1..Len(retained) } \ {null}

\* C12: a retained match whose type is not in the type-to-key table adds
\* nothing to config and stays in the returned assets list; a retained match
\* whose type is in the table has its key in config.
C12_UnmappedTypeKeptOutOfConfig ==
  pc = "buildAvatarConfig" =>
    /\ DOMAIN avatar.config = MappedKeys(avatar.assets)
    /\ \A i \in 1..Len(avatar.assets) :
         mapTypeToConfigKey(avatar.assets[i].type) = null =>
           \A k \in DOMAIN avatar.config : avatar.config[k] # avatar.assets[i].id
    /\ \A i \in 1..Len(matches) :
         \E j \in 1..Len(avatar.assets) : avatar.assets[j].type = matches[i].type

\* The cape, of a type outside the table, is retained beside mapped types.
C12_Witness ==
  /\ pc = "buildAvatarConfig"
  /\ \E i \in 1..Len(avatar.assets) : mapTypeToConfigKey(avatar.assets[i].type) = null
  /\ DOMAIN avatar.config # {}

-----------------------------------------------------------------------------
(* C13 *)

\* C13: a description with a word of the male pattern and a word of the
\* female pattern gives gender male, whichever comes first.
C13_MaleWinsOverFemale ==
  (/\ pc = "buildAvatarConfig"
   /\ WordRuns(description) \cap malePattern # {}
   /\ WordRuns(description) \cap femalePattern # {}) => avatar.gender = "male"

\* "Woman man": the female word comes first.
C13_Witness ==
  /\ pc = "buildAvatarConfig"
  /\ description = <<"W", "o", "m", "a", "n", " ", "m", "a", "n">>
  /\ avatar.gender = "male"

-----------------------------------------------------------------------------
(* C14 *)

\* C14 (as claimed): the controls shown with a character offer exactly 45
\* distinct animation types.
C14_FortyFiveTypesOffered ==
  animator.mounted => Cardinality(OfferedTypes) = 45

-----------------------------------------------------------------------------
(* C15 *)

\* The action of the selected type runs on the mixer that useFrame updates.
Plays(type) ==
  /\ animator.playing # <<>>
  /\ animator.playing[1].type = type
  /\ animator.playing[1].mixer = animator.mixerRef

\* C15 (as claimed, its safety part): while a talking animation plays on an
\* avatar that has viseme morph targets, the lip-sync timer is running.
C15_TalkingPlaysWithLipSync ==
  (/\ animator.mounted
   /\ animator.animationType \in talkingAnimations
   /\ Plays(animator.animationType)
   /\ HasVisemes(animator.avatarScene)) => animator.lipSyncIntervalRef

-----------------------------------------------------------------------------
(* C16 *)

\* C16 (as claimed): an animation selected through the controls is played
\* in repeating loop mode.
C16_SelectedPlaysLooping ==
  (/\ animator.playing # <<>>
   /\ animator.playing[1].type \in OfferedTypes) =>
     animator.playing[1].loop = "LoopRepeat"

-----------------------------------------------------------------------------
(* C17 *)

\* The position in ms of the match a type is represented by: the one of the
\* highest score, the earliest of them.
BestOfType(ms, type) ==
  CHOOSE i \in 1..Len(ms) :
    /\ ms[i].type = type
    /\ \A j \in 1..Len(ms) :
         ms[j].type = type =>
           \/ ms[j].score < ms[i].score
           \/ ms[j].score = ms[i].score /\ i <= j

\* The position of the first match of a type in ms.
FirstOfType(ms, type) ==
  CHOOSE i \in 1..Len(ms) :
    ms[i].type = type /\ \A j \in 1..(i - 1) : ms[j].type # type

\* C17: for each type in findAssets' result buildAvatarConfig retains the
\* highest-scoring result of the type, the earliest on a tie, and lists the
\* retained matches in the order in which their types first appear.
C17_BestPerTypeInFirstSeenOrder ==
  pc = "buildAvatarConfig" =>
    /\ { avatar.assets[k].type : k \in 1..Len(avatar.assets) }
         = { matches[i].type : i \in 1..Len(matches) }
    /\ \A k \in 1..Len(avatar.assets) :
         avatar.assets[k] = matches[BestOfType(matches, avatar.assets[k].type)]
    /\ \A k, l \in 1..Len(avatar.assets) :
         k < l => FirstOfType(matches, avatar.assets[k].type)
                    < FirstOfType(matches, avatar.assets[l].type)

\* Two results of one type tie, and several types are retained.
C17_Witness ==
  /\ pc = "buildAvatarConfig"
  /\ \E i, j \in 1..Len(matches) :
       i < j /\ matches[i].type = matches[j].type /\ matches[i].score = matches[j].score
  /\ Len(avatar.assets) >= 3

-----------------------------------------------------------------------------
(* C18 *)

\* What the gender bucket added to the score findAssets gave an entry: the
\* score less the contributions of the other buckets.
GenderPart(asset) ==
  (IF Listed(matches, asset.id) THEN ScoreIn(matches, asset.id) ELSE 0)
    - TypeScore(asset, terms) - ColorScore(asset, terms)
    - MaterialScore(asset, terms) - StyleScore(asset, terms)
    - KeywordScore(asset, terms)

\* C18: the gender contribution is 0 or 2 however many gender tokens the
\* description has; it is 2 exactly when some gender token, one trailing "s"
\* removed, is a substring of a lower-cased gender tag of the entry.
C18_GenderAddsTwoOnce ==
  pc = "findAssets" =>
    \A n \in 1..Len(assets) :
      /\ GenderPart(assets[n]) \in {0, 2}
      /\ GenderPart(assets[n]) = 2 <=>
           \E i \in 1..Len(terms.keywords) :
             /\ terms.keywords[i] \in genderTerms
             /\ \E j \in 1..Len(assets[n].gender) :
                  StrIncludes(ToLowerCase(assets[n].gender[j]),
                              RemovePlural(terms.keywords[i]))

\* "male male": two matching gender tokens add 2, also to the entry tagged
\* female only, of which "male" is a substring.
C18_Witness ==
  /\ pc = "findAssets"
  /\ Len(terms.gender) >= 2
  /\ GenderPart(assets[CatalogIndex("hair_long_brown")]) = 2
  /\ GenderPart(assets[CatalogIndex("hair_short_black")]) = 2

-----------------------------------------------------------------------------
(* C19 *)

\* The positions at which a maximal run of whitespace starts.
RunStarts(s) ==
  { i \in 1..Len(s) : IsWhitespace(s[i]) /\ (i = 1 \/ ~IsWhitespace(s[i - 1])) }

\* The positions at which a maximal run of whitespace ends.
RunEnds(s) ==
  { i \in 1..Len(s) : IsWhitespace(s[i]) /\ (i = Len(s) \/ ~IsWhitespace(s[i + 1])) }

\* The k-th smallest element of a set of numbers.
Kth(S, k) == CHOOSE x \in S : Cardinality({y \in S : y < x}) = k - 1

\* The text between the whitespace runs: piece k lies behind run k - 1 and
\* in front of run k.
PiecesBetweenRuns(s) ==
  LET r == Cardinality(RunStarts(s))
  IN  [k \in 1..(r + 1) |->
         SubSeq(s,
                IF k = 1 THEN 1 ELSE Kth(RunEnds(s), k - 1) + 1,
                IF k = r + 1 THEN Len(s) ELSE Kth(RunStarts(s), k) - 1)]

\* The positions of ws that hold a word of the vocabulary V.
MemberPositions(ws, V) == { i \in 1..Len(ws) : ws[i] \in V }

\* bucket is the subsequence of ws of the members of V.
IsSubsequenceOfMembers(bucket, ws, V) ==
  /\ Len(bucket) = Cardinality(MemberPositions(ws, V))
  /\ \A k \in 1..Len(bucket) : bucket[k] = ws[Kth(MemberPositions(ws, V), k)]

\* C19: the keywords are the lower-cased description split at its runs of
\* whitespace, and each bucket is the subsequence of the keywords that are
\* members of its vocabulary, order and duplicates kept.
C19_BucketsAreMemberSubsequences ==
  FindAssetsReturned =>
    /\ terms.keywords = PiecesBetweenRuns(ToLowerCase(description))
    /\ IsSubsequenceOfMembers(terms.colors, terms.keywords, colors)
    /\ IsSubsequenceOfMembers(terms.materials, terms.keywords, materials)
    /\ IsSubsequenceOfMembers(terms.types, terms.keywords, clothingTypes)
    /\ IsSubsequenceOfMembers(terms.styles, terms.keywords, styles)
    /\ IsSubsequenceOfMembers(terms.gender, terms.keywords, genderTerms)

\* "Woman Woman": lower-cased, and kept twice in the gender bucket.
C19_Witness ==
  /\ pc = "findAssets"
  /\ description = <<"W", "o", "m", "a", "n", " ", "W", "o", "m", "a", "n">>
  /\ terms.gender = << <<"w", "o", "m", "a", "n">>, <<"w", "o", "m", "a", "n">> >>
  /\ terms.keywords = terms.gender
  /\ terms.colors = <<>>

-----------------------------------------------------------------------------
(* C20 *)

\* C20 (as claimed): for the empty string all six sequences of
\* extractSearchTerms are empty.
C20_EmptyGivesSixEmpty ==
  (FindAssetsReturned /\ description = <<>>) =>
    /\ terms.colors = <<>>
    /\ terms.materials = <<>>
    /\ terms.types = <<>>
    /\ terms.styles = <<>>
    /\ terms.gender = <<>>
    /\ terms.keywords = <<>>

\* C20 (amended): for the empty string the five buckets of
\* extractSearchTerms are empty and keywords holds one token, the empty string.
C20_EmptyGivesOneEmptyKeyword ==
  (FindAssetsReturned /\ description = <<>>) =>
    /\ terms.colors = <<>>
    /\ terms.materials = <<>>
    /\ terms.types = <<>>
    /\ terms.styles = <<>>
    /\ terms.gender = <<>>
    /\ terms.keywords = << <<>> >>

\* findAssets("") has returned.
C20_Witness ==
  /\ pc = "findAssets"
  /\ description = <<>>
  /\ Len(terms.keywords) = 1
  /\ matches = <<>>

-----------------------------------------------------------------------------
(* C21 *)

\* The score findAssets gave a catalog entry, 0 for an entry it left out.
ScoreOf(asset) ==
  IF Listed(matches, asset.id) THEN ScoreIn(matches, asset.id) ELSE 0

\* Some garment-type token of the description is in the entry's name, is
\* its type or is one of its tags.
MatchesGarmentType(asset) ==
  \E i \in 1..Len(terms.keywords) :
    /\ terms.keywords[i] \in clothingTypes
    /\ \/ StrIncludes(ToLowerCase(asset.name), terms.keywords[i])
       \/ asset.type = terms.keywords[i]
       \/ \E j \in 1..Len(asset.tags) : asset.tags[j] = terms.keywords[i]

\* The entry matches a colour token and nothing else: no type, material,
\* style or gender match, and no generic match but those of the colour tokens.
MatchesOnlyOnColour(asset) ==
  /\ ColorScore(asset, terms) > 0
  /\ TypeScore(asset, terms) = 0
  /\ MaterialScore(asset, terms) = 0
  /\ StyleScore(asset, terms) = 0
  /\ GenderPart(asset) = 0
  /\ KeywordScore(asset, terms)
       = KeywordScore(asset, [terms EXCEPT !.keywords = terms.colors])

\* Every entry matching a garment type scores above every entry matching
\* on colour only.
TypeAboveColourOnly ==
  \A n, k \in 1..Len(assets) :
    (MatchesGarmentType(assets[n]) /\ MatchesOnlyOnColour(assets[k]))
      => ScoreOf(assets[n]) > ScoreOf(assets[k])

\* C21 (as claimed): for every description, every entry that matches a
\* garment type of the description has a strictly higher score than every
\* entry that matches the description on colour only.
C21_TypeOutranksColourOnly ==
  pc = "findAssets" => TypeAboveColourOnly

\* C21 (amended): when the description has at most one colour token, every
\* entry that matches a garment type of the description has a strictly
\* higher score than every entry that matches it on colour only.
C21_TypeOutranksOneColour ==
  (pc = "findAssets" /\ Len(terms.colors) <= 1) => TypeAboveColourOnly

\* "jeans black": the jeans score 11, the black sunglasses 6.
C21_Witness ==
  /\ pc = "findAssets"
  /\ Len(terms.colors) = 1
  /\ Len(terms.types) = 1
  /\ MatchesGarmentType(assets[CatalogIndex("outfit_blue_jeans")])
  /\ MatchesOnlyOnColour(assets[CatalogIndex("glasses_sunglasses_black")])
  /\ ScoreOf(assets[CatalogIndex("outfit_blue_jeans")]) = 11
  /\ ScoreOf(assets[CatalogIndex("glasses_sunglasses_black")]) = 6

-----------------------------------------------------------------------------
(* C22 *)

\* The character list that a reload would read: the empty list for an
\* absent entry.
PersistedCharacters == app.storage.list

\* C22 (as claimed): after every operation and its save effect, the list
\* persisted under 'rpm-characters' is the in-memory character list.
C22_PersistedEqualsCharacters ==
  app.storage.state # "corrupt" /\ PersistedCharacters = app.characters

-----------------------------------------------------------------------------
(* C23 *)

\* C23: selectedCharacterId is null or the id of a character of the list.
C23_SelectionIsNullOrListed ==
  \/ app.selectedCharacterId = 0
  \/ HasCharacter(app.characters, app.selectedCharacterId)

\* Two characters were created, the first one was selected again and the
\* second one, not selected, was removed: the selection stays.
C23_Witness ==
  /\ app.uuids = 2
  /\ Len(app.characters) = 1
  /\ app.characters[1].id = 1
  /\ app.characters[1].avatarUrl = UrlGlb
  /\ app.selectedCharacterId = 1

\* The assets of the pages 1..p of the API, in the order of the pages.
AssetsOfPages(p) ==
  [i \in 1..(IF p <= NumPages THEN p ELSE NumPages) |-> PageData(i)[1]]

\* A step of a run of fetchAllAssets that is under way.
StepOfRun == fetcher.pc = "fetching" /\ fetcher'.runs = fetcher.runs

\* A failed attempt leaves the page and counts one more consecutive failure.
FailureRetriesSamePage ==
  (Respond503 \/ RespondError) =>
     /\ fetcher'.page = fetcher.page
     /\ fetcher'.consecutiveErrors = fetcher.consecutiveErrors + 1

\* A successful response resets the counter and moves to the next page.
SuccessResetsAndAdvances ==
  RespondSuccess =>
     /\ fetcher'.page = fetcher.page + 1
     /\ fetcher'.consecutiveErrors = 0

\* Within a run the page moves only by a successful response, and by one.
PageMovesOnlyOnSuccess ==
  (StepOfRun /\ fetcher'.page # fetcher.page) =>
     /\ RespondSuccess
     /\ fetcher'.page = fetcher.page + 1

\* The run is over with the step that counts the third consecutive failure.
StopsAtThirdFailure ==
  (StepOfRun /\ fetcher'.consecutiveErrors = MAX_RETRIES) =>
     /\ fetcher'.pc = "finished"
     /\ fetcher'.stopped = "retries"

C25_RetryLimitLeavesPartialSave ==
  (fetcher.pc = "finished" /\ fetcher.stopped = "retries") =>
     /\ fetcher.savedThisRun
     /\ fetcher.partial.exists
     /\ fetcher.partial.assets = ValuesById(fetcher.allAssets)
     /\ fetcher.partial.lastPage = fetcher.page - 1

C27_NoLipSyncOutsideTalking ==
  ( /\ animator.mounted
    /\ ~animator.effectPending
    /\ animator.animationType \notin talkingAnimations )
  => (~animator.lipSyncIntervalRef /\ animator.intervals = 0)

\* C28: at most one lip-sync interval timer exists at any time, and it is
\* the one lipSyncIntervalRef holds: every start of lip sync comes after the
\* previous timer was cleared; the cleanup that runs when the avatar changes
\* or the component unmounts leaves no timer, and none survives the unmount.
C28_AtMostOneLipSyncTimer ==
  /\ animator.intervals <= 1
  /\ animator.lipSyncIntervalRef <=> animator.intervals = 1
  /\ setupCleanup(animator).intervals = 0
  /\ ~animator.mounted => animator.intervals = 0

\* After a selection and a change of the avatar, talk plays on a mesh with
\* visemes and its timer runs.
C28_Witness ==
  /\ animator.mounted
  /\ animator.avatarChanges = 1
  /\ animator.selections >= 1
  /\ Plays("talk")
  /\ animator.lipSyncIntervalRef
  /\ animator.intervals = 1

=============================================================================
